---- MODULE Spec2Model ----
(***************************************************************************)
(* Model of src/app.py: the ingestion pipeline of the PMMA import analysis *)
(* (header reconciliation, duplicate-column removal, period normalisation, *)
(* numeric coercion) and the grouped aggregation that follows it.          *)
(*                                                                         *)
(* A data frame is a sequence of columns; a column is a record            *)
(* [name, src, cells] where src is the position of the column in the      *)
(* uploaded file and cells holds one cell per row.  Text is a sequence of  *)
(* one-character strings so that the string operations of the code can be  *)
(* computed.  Floats are fixed-point integers with Decimals fractional     *)
(* digits.                                                                 *)
(***************************************************************************)
EXTENDS Integers, Sequences, FiniteSets, TLC

\* ------------------------------------------------------------------ bounds
MaxCols == 4
MaxRows == 2
Decimals == 2

\* ------------------------------------------------------- program constants
\* len(dt_str) >= 6 in safe_to_datetime
MinDigits == 6
\* len(df_prophet) < 2
MinPoints == 2

VARIABLES
    rawHeaders,    \* headers of the uploaded file, as read (with padding)
    rawRows,       \* rows of the uploaded file: cells aligned with rawHeaders
    pc,            \* position of the script run
    df,            \* the data frame df
    rowid,         \* df.index: the source row of every row of df
    renamed_cols,  \* the dict renamed_cols
    msgs,          \* what st.warning / st.error reported in this run
    menu,          \* the analysis chosen in the side bar
    produtos,      \* the products chosen in the filter
    paises,        \* the countries chosen in the filter
    df_filtrado,   \* the data frame df_filtrado
    group_by_col,  \* the grouping chosen in the select box
    agrupado_agg,  \* the data frame agrupado_agg
    todo,          \* the metrics the merge loop has still to join
    metrica,       \* the metric chosen for the forecast
    df_prophet     \* the series handed to Prophet.fit

inputVars == <<rawHeaders, rawRows>>
ingestVars == <<df, rowid, renamed_cols>>
histVars == <<produtos, paises, df_filtrado, group_by_col, agrupado_agg, todo>>
prevVars == <<metrica, df_prophet>>

vars == <<inputVars, pc, ingestVars, msgs, menu, histVars, prevVars>>

\* --------------------------------------------------------------- cells
Str(s) == [k |-> "str", s |-> s]
NA == [k |-> "na"]
NaT == [k |-> "nat"]
Ts(y, m, d) == [k |-> "ts", y |-> y, m |-> m, d |-> d]
Num(v) == [k |-> "num", v |-> v]
NaN == [k |-> "nan"]

\* --------------------------------------------------------------- text
Digits == <<"0", "1", "2", "3", "4", "5", "6", "7", "8", "9">>

DigitSet == {Digits[i] : i \in 1..10}

DigitVal(c) == (CHOOSE i \in 1..10 : Digits[i] = c) - 1

Contains(s, c) == \E i \in 1..Len(s) : s[i] = c

\* str.isdigit(): non-empty and every character a digit
IsDigit(s) == Len(s) > 0 /\ \A i \in 1..Len(s) : s[i] \in DigitSet

RECURSIVE ReplaceAll(_, _, _)
\* str.replace(c, r): every occurrence of the character c becomes the text r
ReplaceAll(s, c, r) ==
    IF s = <<>> THEN <<>>
    ELSE (IF Head(s) = c THEN r ELSE <<Head(s)>>) \o ReplaceAll(Tail(s), c, r)

\* position of the first occurrence of c in s, 0 when there is none
IndexOf(s, c) ==
    IF Contains(s, c) THEN CHOOSE i \in 1..Len(s) : s[i] = c /\ \A j \in 1..(i-1) : s[j] # c
    ELSE 0

\* str.replace(c, '', 1): the first occurrence of c removed
RemoveFirst(s, c) ==
    LET i == IndexOf(s, c)
    IN IF i = 0 THEN s ELSE SubSeq(s, 1, i - 1) \o SubSeq(s, i + 1, Len(s))

\* str.split(c)[0]: the text before the first c
SplitHead(s, c) ==
    LET i == IndexOf(s, c)
    IN IF i = 0 THEN s ELSE SubSeq(s, 1, i - 1)

\* the text after the first c
SplitRest(s, c) ==
    LET i == IndexOf(s, c)
    IN IF i = 0 THEN <<>> ELSE SubSeq(s, i + 1, Len(s))

RECURSIVE ToInt(_)
\* the value of a text of digits (0 for the empty text)
ToInt(s) ==
    IF s = <<>> THEN 0
    ELSE 10 * ToInt(SubSeq(s, 1, Len(s) - 1)) + DigitVal(s[Len(s)])

RECURSIVE Pow10(_)
Pow10(n) == IF n = 0 THEN 1 ELSE 10 * Pow10(n - 1)

\* ------------------------------------------------------------ data frame
Col(name, src, cells) == [name |-> name, src |-> src, cells |-> cells]

ColNames(d) == {d[i].name : i \in 1..Len(d)}

\* `name in df.columns`
HasCol(d, name) == name \in ColNames(d)

NRows(d) == IF Len(d) = 0 THEN 0 ELSE Len(d[1].cells)

\* df.empty: no column or no row
IsEmpty(d, idx) == Len(d) = 0 \/ Len(idx) = 0

\* the first column named name (df[name] when the name is unique)
ColOf(d, name) == d[CHOOSE i \in 1..Len(d) : d[i].name = name /\ \A j \in 1..(i-1) : d[j].name # name]

\* ---------------------------------------------------------- column names
\* df.columns = [col.strip() for col in df.columns]: a raw header is its name
\* with pad surrounding blanks; strip() leaves the name
Strip(h) == h.name

StripHeaders(headers, rows) ==
    [j \in 1..Len(headers) |->
        Col(Strip(headers[j]), j, [i \in 1..Len(rows) |-> rows[i][j]])]

\* column_mapping, in the order of the dict literal
column_mapping ==
    << <<"Peso líquido", "Peso">>,
       <<"VALOR FOB ESTIMADO TOTAL", "Valor_FOB">>,
       <<"VALOR CIF TOTAL", "Valor_CIF">>,
       <<"QTD Estatística", "Qtd_Estatística">>,
       <<"Qtd. de operações estimada", "Qtd_Estatística">>,
       <<"Descrição produto", "Produto">>,
       <<"PAIS DE ORIGEM", "País">>,
       <<"País de aquisição", "País_Aquisição">>,
       <<"URF de Entrada", "URF_Entrada">>,
       <<"PROVÁVEL IMPORTADOR", "Importador">>,
       <<"PROVÁVEL EXPORTADOR", "Exportador">>,
       <<"NCM's", "NCM">>,
       <<"NCM", "NCM">>,
       <<"MODAL", "Modal">>,
       <<"Incoterm", "Incoterm">>,
       <<"Valor CIF Unitário", "CIF_Unitário">>,
       <<"Valor FOB Estimado Unitário", "FOB_Unitário">> >>

MappingKeys == {column_mapping[i][1] : i \in 1..Len(column_mapping)}

MappedTo(k) == column_mapping[CHOOSE i \in 1..Len(column_mapping) : column_mapping[i][1] = k][2]

\* renamed_cols: the entries of column_mapping whose key is a column of df
BuildRenamed(d) == [k \in {x \in MappingKeys : HasCol(d, x)} |-> MappedTo(k)]

col_qte_est_1 == "QTD Estatística"
col_qte_est_2 == "Qtd. de operações estimada"

HasConflict(d) == HasCol(d, col_qte_est_1) /\ HasCol(d, col_qte_est_2)

\* df.drop(columns=[name]): every column of that name goes
DropCol(d, name) == SelectSeq(d, LAMBDA c : c.name # name)

\* the conflict step on df
ResolveDf(d) == IF HasConflict(d) THEN DropCol(d, col_qte_est_1) ELSE d

\* the conflict step on renamed_cols (del renamed_cols[col_qte_est_1])
ResolveRenamed(d, r) ==
    IF HasConflict(d) THEN [k \in (DOMAIN r) \ {col_qte_est_1} |-> r[k]] ELSE r

\* df.rename(columns=renamed_cols)
RenameDf(d, r) ==
    [j \in 1..Len(d) |->
        [d[j] EXCEPT !.name = IF d[j].name \in DOMAIN r THEN r[d[j].name] ELSE d[j].name]]

\* ~df.columns.duplicated(keep='first'): a column stays when no column to its
\* left has its name
KeepFirst(d) ==
    LET keep == {j \in 1..Len(d) : \A i \in 1..(j-1) : d[i].name # d[j].name}
        F[j \in 0..Len(d)] ==
            IF j = 0 THEN <<>>
            ELSE IF j \in keep THEN Append(F[j-1], d[j]) ELSE F[j-1]
    IN F[Len(d)]

\* if not df.empty: df = df.loc[:, ~df.columns.duplicated(keep='first')]
DedupDf(d, idx) == IF ~IsEmpty(d, idx) THEN KeepFirst(d) ELSE d

\* the data frame after lines 51-107, from the file as read
Ingest(headers, rows) ==
    LET d0 == StripHeaders(headers, rows)
        r0 == BuildRenamed(d0)
        d1 == ResolveDf(d0)
        r1 == ResolveRenamed(d0, r0)
        d2 == RenameDf(d1, r1)
    IN DedupDf(d2, [i \in 1..Len(rows) |-> i])

\* ------------------------------------------------------------ rows
\* the positions a boolean mask selects, in order
KeptPositions(mask) ==
    LET F[i \in 0..Len(mask)] ==
            IF i = 0 THEN <<>>
            ELSE IF mask[i] THEN Append(F[i-1], i) ELSE F[i-1]
    IN F[Len(mask)]

\* the rows of d at the positions pos, in that order
TakeRows(d, pos) ==
    [j \in 1..Len(d) |->
        [d[j] EXCEPT !.cells = [i \in 1..Len(pos) |-> d[j].cells[pos[i]]]]]

TakeIndex(idx, pos) == [i \in 1..Len(pos) |-> idx[pos[i]]]

\* ------------------------------------------------------------ the period
IsLeap(y) == (y % 4 = 0 /\ y % 100 # 0) \/ y % 400 = 0

DaysIn(y, m) ==
    IF m = 2 THEN (IF IsLeap(y) THEN 29 ELSE 28)
    ELSE IF m \in {4, 6, 9, 11} THEN 30 ELSE 31

\* the years pd.Timestamp holds whole (1677-09-21 .. 2262-04-11)
InTimestampRange(y) == y >= 1678 /\ y <= 2261

\* pd.to_datetime(text, format="%Y%m", errors='coerce') on a text of digits:
\* %Y takes four digits, %m takes 1[0-2], 0[1-9] or [1-9], and the whole text
\* must be consumed; anything else is NaT
strptime_Ym(s) ==
    IF ~IsDigit(s) \/ Len(s) < 5 THEN NaT
    ELSE LET y == ToInt(SubSeq(s, 1, 4))
             r == SubSeq(s, 5, Len(s))
             m == ToInt(r)
         IN IF Len(r) <= 2 /\ m >= 1 /\ m <= 12 /\ InTimestampRange(y)
            THEN Ts(y, m, 1)
            ELSE NaT

\* pd.to_datetime(text, errors='coerce') on a text with a dash or a slash: the
\* shapes YYYY-MM-DD, YYYY/MM/DD and YYYY-MM, YYYY/MM of a calendar date give
\* that date; this operator gives NaT everywhere else, which is pandas' answer
\* for the other texts of PeriodSamples ("n/a") but not for every text
to_datetime(s) ==
    LET sep == IF Contains(s, "-") THEN "-" ELSE "/"
        ys == SplitHead(s, sep)
        rest == SplitRest(s, sep)
        ms == SplitHead(rest, sep)
        ds == SplitRest(rest, sep)
        hasDay == Contains(rest, sep)
    IN IF /\ IsDigit(ys) /\ Len(ys) = 4
          /\ IsDigit(ms) /\ Len(ms) = 2
          /\ (hasDay => IsDigit(ds) /\ Len(ds) = 2)
       THEN LET y == ToInt(ys)
                m == ToInt(ms)
                d == IF hasDay THEN ToInt(ds) ELSE 1
            IN IF /\ m >= 1 /\ m <= 12 /\ d >= 1 /\ d <= DaysIn(y, m)
                  /\ InTimestampRange(y)
               THEN Ts(y, m, d)
               ELSE NaT
       ELSE NaT

\* the text of the period after the fractional part is cut (lines 123-124)
CutFraction(s) ==
    IF Contains(s, ".") /\ IsDigit(RemoveFirst(s, ".")) THEN SplitHead(s, ".") ELSE s

\* the digits branch of safe_to_datetime (lines 126-128)
ParseDigits(s) ==
    IF IsDigit(s) /\ Len(s) >= MinDigits THEN strptime_Ym(s) ELSE NaT

safe_to_datetime(v) ==
    IF v = NA THEN NaT
    ELSE IF Contains(v.s, "-") \/ Contains(v.s, "/") THEN to_datetime(v.s)
    ELSE ParseDigits(CutFraction(v.s))

NotNaT(c) == c # NaT

\* df["ANO/MÊS"] = df["ANO/MÊS"].apply(safe_to_datetime)
ParseDates(d) ==
    [j \in 1..Len(d) |->
        IF d[j].name = "ANO/MÊS"
        THEN [d[j] EXCEPT !.cells = [i \in 1..Len(d[j].cells) |-> safe_to_datetime(d[j].cells[i])]]
        ELSE d[j]]

\* a mutant of DropnaPositions: the rows without a period are not dropped
DropnaPositions_KeepAll(d) == [i \in 1..NRows(d) |-> i]

\* df.dropna(subset=["ANO/MÊS"]): the positions of the rows that stay
DropnaPositions(d) ==
    LET cells == ColOf(d, "ANO/MÊS").cells
    IN KeptPositions([i \in 1..Len(cells) |-> NotNaT(cells[i])])

\* ------------------------------------------------------------ numbers
Scale == Pow10(Decimals)

RECURSIVE NatText(_)
\* str(n) for a natural number
NatText(n) == IF n < 10 THEN <<Digits[n + 1]>> ELSE NatText(n \div 10) \o <<Digits[(n % 10) + 1]>>

RECURSIVE DropTrailingZeros(_)
DropTrailingZeros(s) ==
    IF Len(s) > 1 /\ s[Len(s)] = "0" THEN DropTrailingZeros(SubSeq(s, 1, Len(s) - 1)) ELSE s

\* the fraction digits of a fixed-point value, Decimals of them
FracText(v) ==
    LET t == NatText(v % Scale)
    IN [i \in 1..(Decimals - Len(t)) |-> "0"] \o t

\* astype(str) on one cell: the text itself, "nan" for a missing value, the
\* repr of a (non-negative) float such as "0.0"
AsText(c) ==
    IF c.k = "str" THEN c.s
    ELSE IF c.k = "num" THEN NatText(c.v \div Scale) \o <<".">> \o DropTrailingZeros(FracText(c.v))
    ELSE <<"n", "a", "n">>

\* a mutant of CleanNumeric: the thousands separators are left in
CleanNumeric_KeepPeriods(s) == ReplaceAll(ReplaceAll(s, ",", <<".">>), " ", <<>>)

\* lines 170-175: periods removed, commas to periods, blanks removed
CleanNumeric(s) == ReplaceAll(ReplaceAll(ReplaceAll(s, ".", <<>>), ",", <<".">>), " ", <<>>)

\* the digits after the point, as Decimals digits (cut or padded with zeros)
FracValue(f) ==
    ToInt([i \in 1..Decimals |-> IF i <= Len(f) THEN f[i] ELSE "0"])

\* pd.to_numeric(text, errors='coerce') on [sign] digits [. digits]: its value;
\* NaN for every other text here (exponents, inf and hex are not modelled)
to_numeric(s) ==
    LET neg == Len(s) > 0 /\ s[1] = "-"
        body == IF Len(s) > 0 /\ s[1] \in {"-", "+"} THEN Tail(s) ELSE s
        ip == SplitHead(body, ".")
        fp == SplitRest(body, ".")
        okInt == ip = <<>> \/ IsDigit(ip)
        okFrac == fp = <<>> \/ IsDigit(fp)
    IN IF okInt /\ okFrac /\ (ip # <<>> \/ fp # <<>>)
       THEN Num((IF neg THEN -1 ELSE 1) * (ToInt(ip) * Scale + FracValue(fp)))
       ELSE NaN

\* .fillna(0).astype(float)
fillna0(c) == IF c = NaN THEN Num(0) ELSE c

\* lines 164-181 on one cell
CoerceCell(c) == fillna0(to_numeric(CleanNumeric(AsText(c))))

numeric_cols == <<"Peso", "Valor_FOB", "Valor_CIF", "Qtd_Estatística", "CIF_Unitário", "FOB_Unitário">>

backfill_cols == <<"Valor_FOB", "Valor_CIF", "Qtd_Estatística">>

\* one turn of the loop of lines 160-191: the column name made numeric
CoerceCol(d, name) ==
    [j \in 1..Len(d) |->
        IF d[j].name = name
        THEN [d[j] EXCEPT !.cells = [i \in 1..Len(d[j].cells) |-> CoerceCell(d[j].cells[i])]]
        ELSE d[j]]

RECURSIVE CoerceCols(_, _)
\* the loop of lines 160-191 over the names in cols
CoerceCols(d, cols) ==
    IF cols = <<>> THEN d
    ELSE CoerceCols(IF HasCol(d, Head(cols)) THEN CoerceCol(d, Head(cols)) ELSE d,
                    Tail(cols))

RECURSIVE BackfillCols(_, _, _)
\* the loop of lines 153-156: a missing column is added, filled with 0.0
BackfillCols(d, n, cols) ==
    IF cols = <<>> THEN d
    ELSE BackfillCols(IF HasCol(d, Head(cols)) THEN d
                      ELSE Append(d, Col(Head(cols), 0, [i \in 1..n |-> Num(0)])),
                      n, Tail(cols))

Range(s) == {s[i] : i \in 1..Len(s)}

\* ------------------------------------------------------------ aggregation
\* the characters of the texts of the model, in code point order
CharOrder ==
    <<" ", ",", "-", ".", "/", "0", "1", "2", "3", "4", "5", "6", "7", "8", "9",
      "A", "B", "X", "Y", "a", "b", "c", "n">>

CharRank(c) == CHOOSE i \in 1..Len(CharOrder) : CharOrder[i] = c

RECURSIVE TextLess(_, _)
\* a < b for two str values
TextLess(a, b) ==
    IF b = <<>> THEN FALSE
    ELSE IF a = <<>> THEN TRUE
    ELSE IF Head(a) = Head(b) THEN TextLess(Tail(a), Tail(b))
    ELSE CharRank(Head(a)) < CharRank(Head(b))

\* a < b for two cells of one column of group keys
CellLess(a, b) ==
    IF a.k = "ts"
    THEN \/ a.y < b.y
         \/ (a.y = b.y /\ a.m < b.m)
         \/ (a.y = b.y /\ a.m = b.m /\ a.d < b.d)
    ELSE TextLess(a.s, b.s)

RECURSIVE KeyLess(_, _)
\* lexicographic order of two group keys
KeyLess(a, b) ==
    IF a = <<>> THEN FALSE
    ELSE IF Head(a) = Head(b) THEN KeyLess(Tail(a), Tail(b))
    ELSE CellLess(Head(a), Head(b))

RECURSIVE SortKeys_Descending(_)
\* a mutant of SortKeys: the keys in descending order
SortKeys_Descending(S) ==
    IF S = {} THEN <<>>
    ELSE LET hi == CHOOSE k \in S : \A o \in S \ {k} : KeyLess(o, k)
         IN <<hi>> \o SortKeys_Descending(S \ {hi})

RECURSIVE SortKeys(_)
\* the keys of a groupby(sort=True), ascending
SortKeys(S) ==
    IF S = {} THEN <<>>
    ELSE LET lo == CHOOSE k \in S : \A o \in S \ {k} : KeyLess(k, o)
         IN <<lo>> \o SortKeys(S \ {lo})

\* the group key of row i
KeyAt(d, keys, i) == [k \in 1..Len(keys) |-> ColOf(d, keys[k]).cells[i]]

IsMissing(c) == c.k \in {"na", "nat", "nan"}

\* groupby(keys): rows with a missing key belong to no group (dropna=True)
GroupRows(d, keys) ==
    {i \in 1..NRows(d) : \A k \in 1..Len(keys) : ~IsMissing(KeyAt(d, keys, i)[k])}

GroupKeys(d, keys) == SortKeys({KeyAt(d, keys, i) : i \in GroupRows(d, keys)})

RECURSIVE SumCells(_, _)
SumCells(cells, rows) ==
    IF rows = {} THEN 0
    ELSE LET i == CHOOSE x \in rows : TRUE
         IN cells[i].v + SumCells(cells, rows \ {i})

\* the sum of metric over the rows of one group
GroupSumOf(d, keys, key, metric) ==
    Num(SumCells(ColOf(d, metric).cells,
                 {i \in GroupRows(d, keys) : KeyAt(d, keys, i) = key}))

\* the key columns of a grouped result
KeyCols(keys, gk) ==
    [k \in 1..Len(keys) |-> Col(keys[k], 0, [g \in 1..Len(gk) |-> gk[g][k]])]

\* grouped_obj[metric].agg('sum'), cut to group_cols + [metric]
GroupSum(d, keys, metric) ==
    LET gk == GroupKeys(d, keys)
    IN Append(KeyCols(keys, gk),
              Col(metric, 0, [g \in 1..Len(gk) |-> GroupSumOf(d, keys, gk[g], metric)]))

\* df.groupby(keys).agg({m: 'sum' for m in metrics}).reset_index(): every
\* metric summed in one pass
GroupAgg(d, keys, metrics) ==
    LET gk == GroupKeys(d, keys)
    IN KeyCols(keys, gk) \o
       [m \in 1..Len(metrics) |->
            Col(metrics[m], 0, [g \in 1..Len(gk) |-> GroupSumOf(d, keys, gk[g], metrics[m])])]

\* the rows of right whose key is that of row li of left, ascending
Matches(left, right, keys, li) ==
    KeptPositions([ri \in 1..NRows(right) |-> KeyAt(right, keys, ri) = KeyAt(left, keys, li)])

RECURSIVE MergePairs(_, _, _, _)
\* the rows of left.merge(right, on=keys, how='left'), as <<row of left, row of
\* right or 0>>: the rows of left in order, each once per matching row of right
MergePairs(left, right, keys, li) ==
    IF li > NRows(left) THEN <<>>
    ELSE LET ms == Matches(left, right, keys, li)
         IN (IF ms = <<>> THEN << <<li, 0>> >>
             ELSE [x \in 1..Len(ms) |-> <<li, ms[x]>>])
            \o MergePairs(left, right, keys, li + 1)

\* the merge on the columns on: the columns of left, then the columns of
\* right that are not in on (agg_dict never makes two metrics of one name)
MergeOn(left, right, on) ==
    LET pairs == MergePairs(left, right, on, 1)
        rcols == SelectSeq(right, LAMBDA c : c.name \notin Range(on))
    IN [j \in 1..Len(left) |->
            [left[j] EXCEPT !.cells = [x \in 1..Len(pairs) |-> left[j].cells[pairs[x][1]]]]]
       \o
       [j \in 1..Len(rcols) |->
            [rcols[j] EXCEPT !.cells =
                [x \in 1..Len(pairs) |->
                    IF pairs[x][2] = 0 THEN NaN ELSE rcols[j].cells[pairs[x][2]]]]]

\* a mutant of MergeLeft: the merge joins on the period alone
MergeLeft_OnPeriod(left, right, keys) == MergeOn(left, right, <<"ANO/MÊS">>)

\* left.merge(right, on=group_cols, how='left')
MergeLeft(left, right, keys) == MergeOn(left, right, keys)

T_NaoInformado == <<"N", "ã", "o", " ", "I", "n", "f", "o", "r", "m", "a", "d", "o">>

\* .astype(str).fillna("Não Informado") on one cell of the grouping column
GroupText(c) ==
    LET t == Str(AsText(c))
    IN IF IsMissing(t) THEN Str(T_NaoInformado) ELSE t

\* agg_dict of the historical analysis (Qtd_Estatística when it is a column)
agg_dict(d) ==
    <<"Peso", "Valor_FOB", "Valor_CIF">>
        \o (IF HasCol(d, "Qtd_Estatística") THEN <<"Qtd_Estatística">> ELSE <<>>)

\* the grouping choices of the select box
group_by_options(d) ==
    {"Nenhum"} \cup
    {c \in {"Importador", "Exportador", "País_Aquisição", "NCM", "Modal", "URF_Entrada", "Incoterm"} :
        HasCol(d, c)}

\* df[name].dropna().unique(), or [] when the column is missing
FilterOptions(d, name) ==
    IF HasCol(d, name) THEN {c \in Range(ColOf(d, name).cells) : ~IsMissing(c)} ELSE {}

\* df_filtrado[df_filtrado[name].isin(chosen)] when something is chosen
IsinPositions(d, name, chosen) ==
    IF chosen # {} /\ HasCol(d, name)
    THEN KeptPositions([i \in 1..NRows(d) |-> ColOf(d, name).cells[i] \in chosen])
    ELSE [i \in 1..NRows(d) |-> i]

\* the metrics the forecast offers: the columns with a positive total
forecast_metrics == <<"Peso", "Qtd_Estatística", "Valor_FOB", "Valor_CIF">>

ColTotal(d, name) == SumCells(ColOf(d, name).cells, 1..NRows(d))

available_metrics(d) ==
    SelectSeq(forecast_metrics, LAMBDA m : HasCol(d, m) /\ ColTotal(d, m) > 0)

\* a name that two columns of d have
HasDuplicate(d, name) == Cardinality({i \in 1..Len(d) : d[i].name = name}) > 1

\* ------------------------------------------------------------- the input
H(name) == [name |-> name, pad |-> 0]
Padded(name) == [name |-> name, pad |-> 1]

T_202301 == <<"2", "0", "2", "3", "0", "1">>

\* headers for the runs that vary the schema
HeaderPool ==
    { H("ANO/MÊS"), H("Peso líquido"), Padded("Peso líquido"),
      H("QTD Estatística"), H("Qtd. de operações estimada"),
      H("NCM's"), H("NCM") }

Injective(s) == \A i, j \in 1..Len(s) : i # j => s[i] # s[j]

HeaderLists ==
    {s \in UNION {[1..n -> HeaderPool] : n \in 1..MaxCols} : Injective(s)}

\* the cell of column j in the schema runs: the period, or a number that
\* names the column it came from
SchemaCell(h, j) ==
    IF h.name = "ANO/MÊS" THEN Str(T_202301) ELSE Str(<<Digits[j + 1]>>)

InitCols ==
    /\ rawHeaders \in HeaderLists
    /\ \E n \in 0..1 :
        rawRows = [i \in 1..n |-> [j \in 1..Len(rawHeaders) |-> SchemaCell(rawHeaders[j], j)]]

\* texts of the period column: YYYYMM, YYYYMM with a fraction, longer and
\* shorter digit texts, a month out of range, dates with separators, texts
\* that are no date, and the missing value
PeriodSamples ==
    { Str(<<"2", "0", "2", "5", "0", "7">>),
      Str(<<"2", "0", "2", "5", "0", "7", ".", "0">>),
      Str(<<"2", "0", "2", "5", "0", "7", "1", "5">>),
      Str(<<"2", "0", "2", "5", "0", "7", "1">>),
      Str(<<"2", "0", "2", "5", "1", "3">>),
      Str(<<"2", "0", "2", "5">>),
      Str(<<"2", "0", "2", "3", "-", "0", "1", "-", "1", "5">>),
      Str(<<"2", "0", "2", "3", "/", "0", "2", "/", "0", "1">>),
      Str(<<"n", "/", "a">>),
      Str(<<"a", "b", "c">>),
      NA }

\* texts of a numeric column: Brazilian format, plain digits, blanks around
\* and inside, the repr of a float, texts that are no number, the missing value
NumSamples ==
    { Str(<<"1", ".", "2", "3", "4", ",", "5", "6">>),
      Str(<<"1", ".", "0", "0", "0", ",", "0">>),
      Str(<<"2", "5", "0">>),
      Str(<<" ", "1", "2", " ">>),
      Str(<<"1", " ", "2", "3", "4", ",", "5">>),
      Str(<<"1", "2", "3", "4", ".", "5", "6">>),
      Str(<<"-", "5">>),
      Str(<<"1", ",", "2", ",", "3">>),
      Str(<<"a", "b", "c">>),
      Str(<<>>),
      NA }

T_1 == <<"1">>
T_2500 == <<"2", ".", "5", "0", "0", ",", "0", "0">>

RowsOf(n, cellsets) ==
    UNION {[1..k -> cellsets] : k \in 0..n}

\* the runs that vary the period cells
InitDates ==
    /\ rawHeaders = <<H("ANO/MÊS"), H("Peso líquido")>>
    /\ rawRows \in RowsOf(MaxRows, {<<p, Str(T_1)>> : p \in PeriodSamples})

\* the runs that vary the cells of a numeric column
InitNums ==
    /\ rawHeaders = <<H("ANO/MÊS"), H("Peso líquido"), H("VALOR CIF TOTAL")>>
    /\ rawRows \in RowsOf(MaxRows, {<<Str(T_202301), w, Str(T_2500)>> : w \in NumSamples})

T_X == <<"X">>
T_Y == <<"Y">>
T_A == <<"A">>
T_202302 == <<"2", "0", "2", "3", "0", "2">>
T_1000 == <<"1", ".", "0", "0", "0", ",", "0">>
T_2000 == <<"2", ".", "0", "0", "0", ",", "0">>
T_4000 == <<"4", ".", "0", "0", "0", ",", "0", "0">>

\* the rows of the runs that vary the groups: a period, weight and CIF value
\* as in the upload instructions, a transport mode that may be missing, and a
\* product that alternates with the row
AggChoices ==
    {<<p, wc, m>> : p \in {Str(T_202301), Str(T_202302)},
                    wc \in {<<Str(T_1000), Str(T_2500)>>, <<Str(T_2000), Str(T_4000)>>},
                    m \in {Str(T_A), NA}}

AggRow(i, c) == <<c[1], c[2][1], c[2][2], c[3], IF i % 2 = 1 THEN Str(T_X) ELSE Str(T_Y)>>

\* the runs that vary the groups of the aggregation
InitAgg ==
    /\ rawHeaders = <<H("ANO/MÊS"), H("Peso líquido"), H("VALOR CIF TOTAL"),
                      H("MODAL"), H("Descrição produto")>>
    /\ \E f \in RowsOf(MaxRows, AggChoices) :
        rawRows = [i \in 1..Len(f) |-> AggRow(i, f[i])]

T_B == <<"B">>

\* the two spellings of the origin-country header in the upload instructions
\* (line 618)
OriginHeaders == {H("PAIS DE ORIGEM"), H("PAÍS DE ORIGEM")}

\* a row of the runs that vary the origin-country header: product X from
\* country A in the odd rows, product Y from country B in the even ones
OriginRow(i) ==
    <<Str(T_202301), Str(T_1000),
      IF i % 2 = 1 THEN Str(T_X) ELSE Str(T_Y),
      IF i % 2 = 1 THEN Str(T_A) ELSE Str(T_B)>>

\* the runs that vary the origin-country header
InitOrigin ==
    /\ \E h \in OriginHeaders :
        rawHeaders = <<H("ANO/MÊS"), H("Peso líquido"), H("Descrição produto"), h>>
    /\ \E n \in 0..MaxRows : rawRows = [i \in 1..n |-> OriginRow(i)]

T_20230115 == <<"2", "0", "2", "3", "-", "0", "1", "-", "1", "5">>
T_20230120 == <<"2", "0", "2", "3", "-", "0", "1", "-", "2", "0">>

\* periods of one month and of the next, in the two encodings the date
\* treatment accepts (YYYYMM and YYYY-MM-DD)
MonthSamples == {Str(T_20230115), Str(T_20230120), Str(T_202301), Str(T_202302)}

\* the runs that vary the day of the period
InitMonths ==
    /\ rawHeaders = <<H("ANO/MÊS"), H("Peso líquido")>>
    /\ rawRows \in RowsOf(MaxRows, {<<p, Str(T_1000)>> : p \in MonthSamples})

Init ==
    /\ (InitCols \/ InitDates \/ InitNums \/ InitAgg \/ InitOrigin \/ InitMonths)
    /\ pc = "read"
    /\ df = <<>>
    /\ rowid = <<>>
    /\ renamed_cols = <<>>
    /\ msgs = {}
    /\ menu = ""
    /\ produtos = {}
    /\ paises = {}
    /\ df_filtrado = <<>>
    /\ group_by_col = ""
    /\ agrupado_agg = <<>>
    /\ todo = <<>>
    /\ metrica = ""
    /\ df_prophet = <<>>

\* ---------------------------------------------------------------- actions
\* lines 24-51: the file is read and the headers are stripped
ReadFile ==
    /\ pc = "read"
    /\ df' = StripHeaders(rawHeaders, rawRows)
    /\ rowid' = [i \in 1..Len(rawRows) |-> i]
    /\ pc' = "stripped"
    /\ UNCHANGED <<inputVars, renamed_cols, msgs, menu, histVars, prevVars>>

\* lines 78-81
MapColumns ==
    /\ pc = "stripped"
    /\ renamed_cols' = BuildRenamed(df)
    /\ pc' = "mapped"
    /\ UNCHANGED <<inputVars, df, rowid, msgs, menu, histVars, prevVars>>

\* lines 86-99
ResolveConflict ==
    /\ pc = "mapped"
    /\ df' = ResolveDf(df)
    /\ renamed_cols' = ResolveRenamed(df, renamed_cols)
    /\ msgs' = IF HasConflict(df) THEN msgs \cup {<<"warning", "conflict">>} ELSE msgs
    /\ pc' = "resolved"
    /\ UNCHANGED <<inputVars, rowid, menu, histVars, prevVars>>

\* line 102
Rename ==
    /\ pc = "resolved"
    /\ df' = RenameDf(df, renamed_cols)
    /\ pc' = "renamed"
    /\ UNCHANGED <<inputVars, rowid, renamed_cols, msgs, menu, histVars, prevVars>>

\* lines 106-107
Dedup ==
    /\ pc = "renamed"
    /\ df' = DedupDf(df, rowid)
    /\ pc' = "deduped"
    /\ UNCHANGED <<inputVars, rowid, renamed_cols, msgs, menu, histVars, prevVars>>

\* lines 133-146: the period column is parsed and the rows without a period
\* are dropped, or the run stops when the column is missing.  The second
\* pd.to_datetime + dropna of lines 137-139 leaves a column of timestamps as it
\* is.  The files of Init have one period column at most.
NormalizeDates ==
    /\ pc = "deduped"
    /\ IF HasCol(df, "ANO/MÊS")
       THEN LET parsed == ParseDates(df)
                pos == DropnaPositions(parsed)
            IN /\ df' = TakeRows(parsed, pos)
               /\ rowid' = TakeIndex(rowid, pos)
               /\ pc' = "dated"
               /\ msgs' = msgs
       ELSE /\ msgs' = msgs \cup {<<"error", "ANO/MÊS">>}
            /\ pc' = "stopped"
            /\ UNCHANGED <<df, rowid>>
    /\ UNCHANGED <<inputVars, renamed_cols, menu, histVars, prevVars>>

\* a mutant of PesoPresent: the presence test left out
PesoPresent_Skipped(d) == TRUE

\* "Peso" in df.columns (line 149)
PesoPresent(d) == HasCol(d, "Peso")

\* lines 149-151
CheckPeso ==
    /\ pc = "dated"
    /\ IF PesoPresent(df)
       THEN pc' = "checked" /\ msgs' = msgs
       ELSE pc' = "stopped" /\ msgs' = msgs \cup {<<"error", "Peso">>}
    /\ UNCHANGED <<inputVars, ingestVars, menu, histVars, prevVars>>

\* lines 153-156
Backfill ==
    /\ pc = "checked"
    /\ df' = BackfillCols(df, Len(rowid), backfill_cols)
    /\ msgs' = msgs \cup {<<"warning", c>> : c \in {x \in Range(backfill_cols) : ~HasCol(df, x)}}
    /\ pc' = "backfilled"
    /\ UNCHANGED <<inputVars, rowid, renamed_cols, menu, histVars, prevVars>>

\* lines 159-191.  Two columns of one name are only there in a file with no
\* rows; the except branches then leave them without cells, and what they
\* report is not modelled.
Coerce ==
    /\ pc = "backfilled"
    /\ df' = CoerceCols(df, numeric_cols)
    /\ pc' = "coerced"
    /\ UNCHANGED <<inputVars, rowid, renamed_cols, msgs, menu, histVars, prevVars>>

\* line 194
ChooseMenu ==
    /\ pc = "coerced"
    /\ menu' \in {"Análise Histórica", "Previsão"}
    /\ pc' = IF menu' = "Análise Histórica" THEN "historica" ELSE "previsao"
    /\ UNCHANGED <<inputVars, ingestVars, msgs, histVars, prevVars>>

\* lines 209-220: the filters
Filter ==
    /\ pc = "historica"
    /\ produtos' \in SUBSET FilterOptions(df, "Produto")
    /\ paises' \in SUBSET FilterOptions(df, "País")
    /\ LET byProduto == TakeRows(df, IsinPositions(df, "Produto", produtos'))
       IN df_filtrado' = TakeRows(byProduto, IsinPositions(byProduto, "País", paises'))
    /\ pc' = "filtered"
    /\ UNCHANGED <<inputVars, ingestVars, msgs, menu, group_by_col, agrupado_agg, todo, prevVars>>

\* a mutant of FilteredEmpty: the selection is never taken for empty
FilteredEmpty_Never(d) == FALSE

\* df_filtrado.empty (line 233)
FilteredEmpty(d) == IsEmpty(d, [i \in 1..NRows(d) |-> i])

\* lines 223-234: the grouping choice, and the warning for an empty selection
SelectGroup ==
    /\ pc = "filtered"
    /\ group_by_col' \in group_by_options(df)
    /\ IF FilteredEmpty(df_filtrado)
       THEN pc' = "no_data" /\ msgs' = msgs \cup {<<"warning", "Nenhum dado">>}
       ELSE pc' = "grouping" /\ msgs' = msgs
    /\ UNCHANGED <<inputVars, ingestVars, menu, produtos, paises, df_filtrado,
                   agrupado_agg, todo, prevVars>>

\* group_cols (lines 240-249)
group_cols(d, g) ==
    IF g # "Nenhum" /\ HasCol(d, g) THEN <<"ANO/MÊS", g>> ELSE <<"ANO/MÊS">>

\* a mutant of df_groupby_ready: the grouping column is left as it is
df_groupby_ready_Raw(d, g) == d

\* df_groupby_ready: the grouping column as text (line 244)
df_groupby_ready(d, g) ==
    IF g # "Nenhum" /\ HasCol(d, g)
    THEN [j \in 1..Len(d) |->
            IF d[j].name = g
            THEN [d[j] EXCEPT !.cells = [i \in 1..Len(d[j].cells) |-> GroupText(d[j].cells[i])]]
            ELSE d[j]]
    ELSE d

\* lines 237-280: the first metric is summed per group
AggFirst ==
    /\ pc = "grouping"
    /\ LET ready == df_groupby_ready(df_filtrado, group_by_col)
           keys == group_cols(df_filtrado, group_by_col)
           metrics == agg_dict(ready)
       IN /\ agrupado_agg' = GroupSum(ready, keys, Head(metrics))
          /\ todo' = Tail(metrics)
    /\ pc' = "merging"
    /\ UNCHANGED <<inputVars, ingestVars, msgs, menu, produtos, paises, df_filtrado,
                   group_by_col, prevVars>>

\* lines 283-297: one turn of the loop, the next metric summed and merged
AggMerge ==
    /\ pc = "merging"
    /\ todo # <<>>
    /\ LET ready == df_groupby_ready(df_filtrado, group_by_col)
           keys == group_cols(df_filtrado, group_by_col)
       IN agrupado_agg' = MergeLeft(agrupado_agg, GroupSum(ready, keys, Head(todo)), keys)
    /\ todo' = Tail(todo)
    /\ UNCHANGED <<inputVars, pc, ingestVars, msgs, menu, produtos, paises, df_filtrado,
                   group_by_col, prevVars>>

\* lines 301-305: duplicate columns of the result are removed
AggFinish ==
    /\ pc = "merging"
    /\ todo = <<>>
    /\ agrupado_agg' = KeepFirst(agrupado_agg)
    /\ pc' = "aggregated"
    /\ UNCHANGED <<inputVars, ingestVars, msgs, menu, produtos, paises, df_filtrado,
                   group_by_col, todo, prevVars>>

\* lines 307-428: the charts and the tables
Render ==
    /\ pc = "aggregated"
    /\ pc' = "rendered"
    /\ UNCHANGED <<inputVars, ingestVars, msgs, menu, histVars, prevVars>>

\* lines 437-447: the metric of the forecast; df[col].sum() > 0 has no truth
\* value when two columns have the name col, and the run ends with that error
ForecastSelect ==
    /\ pc = "previsao"
    /\ IF \E m \in Range(forecast_metrics) : HasDuplicate(df, m)
       THEN pc' = "crashed" /\ UNCHANGED <<msgs, metrica>>
       ELSE IF available_metrics(df) = <<>>
       THEN /\ pc' = "stopped"
            /\ msgs' = msgs \cup {<<"error", "Nenhuma coluna numérica">>}
            /\ UNCHANGED metrica
       ELSE /\ metrica' \in Range(available_metrics(df))
            /\ pc' = "selected"
            /\ msgs' = msgs
    /\ UNCHANGED <<inputVars, ingestVars, menu, histVars, df_prophet>>

\* the (ds, y) rows of agrupado[["ANO/MÊS", metrica]].dropna()
ProphetRows(agrupado, m) ==
    LET ds == ColOf(agrupado, "ANO/MÊS").cells
        y == ColOf(agrupado, m).cells
        pos == KeptPositions([i \in 1..Len(ds) |-> ~IsMissing(ds[i]) /\ ~IsMissing(y[i])])
    IN [i \in 1..Len(pos) |-> [ds |-> ds[pos[i]], y |-> y[pos[i]]]]

\* lines 473-502: the monthly series, and Prophet.fit on it
ForecastFit ==
    /\ pc = "selected"
    /\ LET metrics == SelectSeq(forecast_metrics, LAMBDA m : HasCol(df, m))
           agrupado == GroupAgg(df, <<"ANO/MÊS">>, metrics)
       IN IF NRows(agrupado) = 0 \/ ~HasCol(agrupado, metrica)
          THEN /\ pc' = "stopped"
               /\ msgs' = msgs \cup {<<"warning", "série insuficiente">>}
               /\ UNCHANGED df_prophet
          ELSE IF Len(ProphetRows(agrupado, metrica)) < MinPoints
          THEN /\ pc' = "stopped"
               /\ msgs' = msgs \cup {<<"error", "Dados insuficientes">>}
               /\ UNCHANGED df_prophet
          ELSE /\ df_prophet' = ProphetRows(agrupado, metrica)
               /\ pc' = "fitted"
               /\ msgs' = msgs
    /\ UNCHANGED <<inputVars, ingestVars, menu, histVars, metrica>>

\* ------------------------------------------------- schema reconciliation
\* the script has run past the rename and the duplicate removal
PreIngest == {"read", "stripped", "mapped", "resolved", "renamed"}

Ingested == pc \notin PreIngest

\* the two pairs of raw headers of column_mapping with one canonical field:
\* <<first listed, later listed, canonical field>>
AliasPairs ==
    { <<"QTD Estatística", "Qtd. de operações estimada", "Qtd_Estatística">>,
      <<"NCM's", "NCM", "NCM">> }

\* where the uploaded file has a header that strips to name
RawPos(headers, name) == {j \in 1..Len(headers) : Strip(headers[j]) = name}

BothPresent(headers, p) == RawPos(headers, p[1]) # {} /\ RawPos(headers, p[2]) # {}

\* the columns of d that came from the file's columns in srcs
FromSrc(d, srcs) == {i \in 1..Len(d) : d[i].src \in srcs}

Named(d, name) == {i \in 1..Len(d) : d[i].name = name}

\* C1: when the file holds both raw headers of an alias pair, after ingestion
\* exactly one column has the canonical name, it is one of the two, and the
\* other one is in the data frame under no name.
C1_OneAliasSurvives ==
    Ingested =>
        \A p \in AliasPairs :
            BothPresent(rawHeaders, p) =>
                LET both == RawPos(rawHeaders, p[1]) \cup RawPos(rawHeaders, p[2])
                IN /\ Cardinality(Named(df, p[3])) = 1
                   /\ Named(df, p[3]) \subseteq FromSrc(df, both)
                   /\ Cardinality(FromSrc(df, both)) = 1

\* the name a column of the data frame gets from the rename step
RenamedName(r, n) == IF n \in DOMAIN r THEN r[n] ELSE n

\* C2: the mapping the rename step applies (renamed_cols after the conflict
\* step, the identity elsewhere) sends no two column names of the data frame to
\* one name.
C2_RenameInjective ==
    pc = "resolved" =>
        \A a, b \in ColNames(df) :
            a # b => RenamedName(renamed_cols, a) # RenamedName(renamed_cols, b)

\* the file with columns i and j exchanged
SwapSeq(s, i, j) ==
    [k \in 1..Len(s) |-> IF k = i THEN s[j] ELSE IF k = j THEN s[i] ELSE s[k]]

SwapRows(rows, i, j) == [r \in 1..Len(rows) |-> SwapSeq(rows[r], i, j)]

\* the raw headers whose column is in the ingested data frame under name
Survivors(headers, rows, name) ==
    LET d == Ingest(headers, rows)
    IN {Strip(headers[d[i].src]) : i \in Named(d, name)}

\* C3: when a file with at least one data row holds both raw headers of an
\* alias pair, the column kept is that of the header listed later in
\* column_mapping, and exchanging two columns of the file does not change which
\* header's column is kept.
C3_SurvivorByPriority ==
    (pc = "deduped" /\ Len(rawRows) >= 1) =>
        \A p \in AliasPairs :
            BothPresent(rawHeaders, p) =>
                /\ Survivors(rawHeaders, rawRows, p[3]) = {p[2]}
                /\ \A i, j \in 1..Len(rawHeaders) :
                    Survivors(SwapSeq(rawHeaders, i, j), SwapRows(rawRows, i, j), p[3])
                        = Survivors(rawHeaders, rawRows, p[3])

\* C4: after the rename and the duplicate removal no two columns of the data
\* frame have one name, and of the columns that had one name the leftmost is
\* the one kept.
C4_NoDuplicateColumns ==
    pc = "deduped" =>
        LET before == RenameDf(ResolveDf(StripHeaders(rawHeaders, rawRows)),
                               renamed_cols)
        IN /\ \A i, j \in 1..Len(df) : i # j => df[i].name # df[j].name
           /\ \A i \in 1..Len(df) :
                \A k \in 1..Len(before) :
                    before[k].name = df[i].name => df[i].src <= before[k].src


\* ------------------------------------------------------- required columns
PeriodInFile == RawPos(rawHeaders, "ANO/MÊS") # {}

WeightInFile == RawPos(rawHeaders, "Peso líquido") # {} \/ RawPos(rawHeaders, "Peso") # {}

\* the positions of a run before any numeric coercion, or stopped
BeforeCoercion == PreIngest \cup {"deduped", "dated", "stopped"}

HasNumCell(d) == \E j \in 1..Len(d) : \E i \in 1..Len(d[j].cells) : d[j].cells[i].k = "num"

\* C5: when the period column or the weight column is missing from the file,
\* the run never gets past the presence checks: it holds no coerced number,
\* no aggregate and no series for Prophet, and where it stops it has reported
\* the missing column as an error.
C5_MissingColumnStops ==
    (~PeriodInFile \/ ~WeightInFile) =>
        /\ pc \in BeforeCoercion
        /\ ~HasNumCell(df)
        /\ agrupado_agg = <<>>
        /\ df_prophet = <<>>
        /\ (pc = "dated" => PeriodInFile)
        /\ (pc = "stopped" =>
                msgs \cap {<<"error", "ANO/MÊS">>, <<"error", "Peso">>} =
                    {IF PeriodInFile THEN <<"error", "Peso">> ELSE <<"error", "ANO/MÊS">>})

C5_Witness ==
    /\ pc = "stopped"
    /\ PeriodInFile
    /\ ~WeightInFile
    /\ Len(rawRows) >= 1
    /\ <<"error", "Peso">> \in msgs

\* ---------------------------------------------------------- the period
PeriodPos == CHOOSE j \in 1..Len(rawHeaders) : Strip(rawHeaders[j]) = "ANO/MÊS"

RawPeriod(i) == rawRows[i][PeriodPos]

Increasing(s) == \A i, j \in 1..Len(s) : i < j => s[i] < s[j]

\* texts the period normalisation has to reject
T_abc == <<"a", "b", "c">>
T_2025 == <<"2", "0", "2", "5">>

\* C6: after the period normalisation the data frame holds, in the order of
\* the file, exactly the rows whose period parses: a row with a missing period,
\* a text that is no date or too few digits is gone, every period left is a
\* timestamp, the other cells of a row are untouched, and a bad cell never
\* makes the run stop with the period error.
C6_UnparsedRowsDropped ==
    /\ (PeriodInFile => <<"error", "ANO/MÊS">> \notin msgs)
    /\ pc = "dated" =>
        /\ Increasing(rowid)
        /\ Len(rowid) <= Len(rawRows)
        /\ \A i \in 1..Len(rawRows) :
            (i \in Range(rowid)) <=> (safe_to_datetime(RawPeriod(i)) # NaT)
        /\ \A i \in 1..Len(rawRows) :
            RawPeriod(i) \in {NA, Str(T_abc), Str(T_2025)} => i \notin Range(rowid)
        /\ \A j \in 1..Len(df) : Len(df[j].cells) = Len(rowid)
        /\ \A j \in 1..Len(df) : \A i \in 1..Len(rowid) :
            IF df[j].name = "ANO/MÊS"
            THEN df[j].cells[i].k = "ts"
            ELSE df[j].cells[i] = rawRows[rowid[i]][df[j].src]

C6_Witness ==
    /\ pc = "dated"
    /\ Len(rawRows) = 2
    /\ rowid = <<2>>
    /\ RawPeriod(1) = Str(T_abc)

\* the period texts C7 is about: no dash, no slash, and after the fraction is
\* cut all digits, at least MinDigits of them, the fifth and sixth a month
YearMonthText(c) ==
    /\ c.k = "str"
    /\ ~Contains(c.s, "-") /\ ~Contains(c.s, "/")
    /\ LET t == CutFraction(c.s)
       IN /\ IsDigit(t) /\ Len(t) >= MinDigits
          /\ ToInt(SubSeq(t, 5, 6)) \in 1..12

FirstSix(c) ==
    LET t == CutFraction(c.s)
    IN Ts(ToInt(SubSeq(t, 1, 4)), ToInt(SubSeq(t, 5, 6)), 1)

\* C7: every row whose period is a text of six or more digits (a fraction
\* cut) is kept, with the first day of the month its first six digits name.
C7_FirstSixDigits ==
    pc = "dated" =>
        \A i \in 1..Len(rawRows) :
            YearMonthText(RawPeriod(i)) =>
                \E r \in 1..Len(rowid) :
                    /\ rowid[r] = i
                    /\ ColOf(df, "ANO/MÊS").cells[r] = FirstSix(RawPeriod(i))

\* ---------------------------------------------------------- the numbers
\* text.strip() of blanks
RECURSIVE StripBlanks(_)
StripBlanks(s) ==
    IF s # <<>> /\ Head(s) = " " THEN StripBlanks(Tail(s))
    ELSE IF s # <<>> /\ s[Len(s)] = " " THEN StripBlanks(SubSeq(s, 1, Len(s) - 1))
    ELSE s

\* the float C8 states for a cell: blanks around the text stripped, periods
\* removed, the comma a period, 0.0 when that is no number
StatedFloat(c) ==
    fillna0(to_numeric(ReplaceAll(ReplaceAll(StripBlanks(AsText(c)), ".", <<>>), ",", <<".">>)))

\* the columns of the file that are numeric columns of the data frame
FileNumericCols(d) ==
    {j \in 1..Len(d) : d[j].name \in Range(numeric_cols) /\ d[j].src > 0}

Coerced == pc \in {"coerced", "historica", "previsao"}

\* C8 as stated: every cell of a numeric column is the float of its text with
\* the blanks around it stripped, and no row is removed or moved.
C8_AsStated ==
    Coerced =>
        \A j \in FileNumericCols(df) : \A i \in 1..Len(rowid) :
            df[j].cells[i] = StatedFloat(rawRows[rowid[i]][df[j].src])

\* the value, in hundredths, of the texts of NumSamples and of the upload
\* instructions
ExpectedHundredths ==
    ( Str(<<"1", ".", "2", "3", "4", ",", "5", "6">>) :> 123456 @@
      Str(<<"1", ".", "0", "0", "0", ",", "0">>) :> 100000 @@
      Str(<<"2", ".", "5", "0", "0", ",", "0", "0">>) :> 250000 @@
      Str(<<"2", "5", "0">>) :> 25000 @@
      Str(<<" ", "1", "2", " ">>) :> 1200 @@
      Str(<<"1", " ", "2", "3", "4", ",", "5">>) :> 123450 @@
      Str(<<"1", "2", "3", "4", ".", "5", "6">>) :> 12345600 @@
      Str(<<"-", "5">>) :> -500 @@
      Str(<<"1", ",", "2", ",", "3">>) :> 0 @@
      Str(<<"a", "b", "c">>) :> 0 @@
      Str(<<>>) :> 0 @@
      NA :> 0 )

\* C8, amended: every cell of a numeric column is the float of its text with
\* every blank and every period removed and the comma a period ("1.234,56" is
\* 1234.56, "1 234,5" is 1234.5), 0.0 when that is no number ("abc", empty,
\* missing); every numeric cell is a float, and the rows are those of before
\* the coercion, in the same order.
C8_CoercionTotal ==
    Coerced =>
        /\ \A j \in 1..Len(df) : \A i \in 1..Len(df[j].cells) :
            df[j].name \in Range(numeric_cols) => df[j].cells[i].k = "num"
        /\ \A j \in 1..Len(df) : Len(df[j].cells) = Len(rowid)
        /\ Increasing(rowid)
        /\ \A i \in 1..Len(rawRows) :
            (i \in Range(rowid)) <=> (safe_to_datetime(RawPeriod(i)) # NaT)
        /\ \A j \in FileNumericCols(df) : \A i \in 1..Len(rowid) :
            LET raw == rawRows[rowid[i]][df[j].src]
            IN raw \in DOMAIN ExpectedHundredths =>
                df[j].cells[i] = Num(ExpectedHundredths[raw] * Pow10(Decimals - 2))

C8_Witness ==
    /\ pc = "coerced"
    /\ Len(rawRows) = 2
    /\ rowid = <<1, 2>>
    /\ rawRows[1][2] = Str(<<"1", " ", "2", "3", "4", ",", "5">>)
    /\ rawRows[2][2] = Str(<<"a", "b", "c">>)
    /\ ColOf(df, "Peso").cells = <<Num(1234 * Scale + 5 * Pow10(Decimals - 1)), Num(0)>>

\* ---------------------------------------------------------- the aggregation
\* the keys of the rows of a grouped result
BucketKeys(d, keys) == [i \in 1..NRows(d) |-> KeyAt(d, keys, i)]

\* C9: the result of the iterative aggregation (first metric, then one left
\* merge per further metric) is the result of one grouped sum of all the
\* metrics: the same keys, one row per key, the same sums, the group columns
\* and the metrics as its only columns, each once.
C9_IterativeEqualsSinglePass ==
    pc = "aggregated" =>
        LET ready == df_groupby_ready(df_filtrado, group_by_col)
            keys == group_cols(df_filtrado, group_by_col)
            metrics == agg_dict(ready)
        IN /\ agrupado_agg = GroupAgg(ready, keys, metrics)
           /\ [j \in 1..Len(agrupado_agg) |-> agrupado_agg[j].name] = keys \o metrics
           /\ Injective(BucketKeys(agrupado_agg, keys))
           /\ Range(BucketKeys(agrupado_agg, keys))
                = {KeyAt(ready, keys, i) : i \in 1..NRows(ready)}

C9_Witness ==
    /\ pc = "aggregated"
    /\ group_by_col = "Modal"
    /\ NRows(df_filtrado) >= 2
    /\ NRows(agrupado_agg) = 2
    /\ ColOf(agrupado_agg, "ANO/MÊS").cells[1] = ColOf(agrupado_agg, "ANO/MÊS").cells[2]

\* the columns of the result that are neither a group column nor a sum
DerivedCols(d, keys, metrics) ==
    {j \in 1..Len(d) : d[j].name \notin Range(keys) \cup Range(metrics)}

\* C10: every bucket carries a unit value: a column of the result other than
\* the keys and the sums whose value is sum(Valor_CIF) / sum(Peso) when
\* sum(Peso) > 0 and 0 otherwise.
C10_WeightedUnitValue ==
    pc = "aggregated" =>
        LET keys == group_cols(df_filtrado, group_by_col)
            metrics == agg_dict(df_filtrado)
        IN \E j \in DerivedCols(agrupado_agg, keys, metrics) :
            \A i \in 1..NRows(agrupado_agg) :
                LET w == ColOf(agrupado_agg, "Peso").cells[i].v
                    cif == ColOf(agrupado_agg, "Valor_CIF").cells[i].v
                    u == agrupado_agg[j].cells[i]
                IN /\ u.k = "num"
                   /\ IF w > 0 THEN u.v * w = cif * Scale ELSE u.v = 0

\* ------------------------------------------------------ the empty selection
\* where a run of the historical analysis is after the emptiness test
AfterEmptyTest == {"no_data", "grouping", "merging", "aggregated", "rendered"}

\* what the steps before the historical analysis report in a run that gets there
IngestMsgs == {<<"warning", "conflict">>} \cup {<<"warning", c>> : c \in Range(backfill_cols)}

\* C11: when the filtered data frame has no row (the filters select nothing,
\* or the period normalisation dropped every row), the historical analysis
\* ends at the warning that no data was found: it has computed no aggregate,
\* rendered nothing and reported nothing else, and the run has not failed;
\* with at least one row the warning is not given.
C11_EmptyMeansNoAggregation ==
    pc \in AfterEmptyTest =>
        IF NRows(df_filtrado) = 0
        THEN /\ pc = "no_data"
             /\ agrupado_agg = <<>>
             /\ todo = <<>>
             /\ msgs \ IngestMsgs = {<<"warning", "Nenhum dado">>}
        ELSE /\ pc # "no_data"
             /\ <<"warning", "Nenhum dado">> \notin msgs

C11_Witness ==
    /\ pc = "no_data"
    /\ NRows(df) = 2
    /\ produtos = {Str(T_X)}
    /\ paises = {Str(T_B)}
    /\ NRows(df_filtrado) = 0

\* ---------------------------------------------------------- the forecast
\* the calendar month of a timestamp
MonthOf(c) == <<c.y, c.m>>

\* month a is before month b
MonthBefore(a, b) == a[1] < b[1] \/ (a[1] = b[1] /\ a[2] < b[2])

\* the months the data frame has records of
MonthsOf(d) ==
    IF HasCol(d, "ANO/MÊS") THEN {MonthOf(c) : c \in Range(ColOf(d, "ANO/MÊS").cells)} ELSE {}

\* where a run of the forecast ends
ForecastEnded == menu = "Previsão" /\ pc \in {"fitted", "stopped", "crashed"}

\* C12: the series Prophet.fit gets has at least MinPoints points, its periods
\* are months in strictly increasing order (no month twice), and each value is
\* the sum of the metric over all the records of that period, whatever their
\* other columns; when the data has fewer than MinPoints months the run of the
\* forecast ends without a call of Prophet.fit and with an error reported.
C12_ProphetInputValid ==
    /\ pc = "fitted" =>
        /\ Len(df_prophet) >= MinPoints
        /\ \A i, j \in 1..Len(df_prophet) :
            i < j => MonthBefore(MonthOf(df_prophet[i].ds), MonthOf(df_prophet[j].ds))
        /\ {df_prophet[i].ds : i \in 1..Len(df_prophet)} = Range(ColOf(df, "ANO/MÊS").cells)
        /\ \A i \in 1..Len(df_prophet) :
            df_prophet[i].y =
                Num(SumCells(ColOf(df, metrica).cells,
                             {r \in 1..NRows(df) :
                                ColOf(df, "ANO/MÊS").cells[r] = df_prophet[i].ds}))
    /\ (ForecastEnded /\ Cardinality(MonthsOf(df)) < MinPoints) =>
        /\ pc = "stopped"
        /\ df_prophet = <<>>
        /\ \E m \in msgs : m[1] = "error"

\* ---------------------------------------------------- the origin country
\* the spellings of the origin-country header the upload instructions name
OriginSpellings == {h.name : h \in OriginHeaders}

\* C13: a column of the file whose header is either spelling of the origin
\* country is the column País of the data frame, and the country filter offers
\* the countries of its records.
C13_OriginCountryMapped ==
    \A j \in 1..Len(rawHeaders) :
        Strip(rawHeaders[j]) \in OriginSpellings =>
            /\ Ingested => \E i \in 1..Len(df) : df[i].name = "País" /\ df[i].src = j
            /\ pc = "historica" =>
                FilterOptions(df, "País") = {rawRows[rowid[i]][j] : i \in 1..Len(rowid)}

\* ------------------------------------------------- the month of a period
\* the calendar month a period text of the file names: its first six digits,
\* the separators aside
RawMonth(c) ==
    LET t == ReplaceAll(ReplaceAll(c.s, "-", <<>>), "/", <<>>)
    IN <<ToInt(SubSeq(t, 1, 4)), ToInt(SubSeq(t, 5, 6))>>

\* the run holds a parsed period column
PeriodParsed == pc \notin PreIngest \cup {"deduped"} /\ HasCol(df, "ANO/MÊS")

\* C14: every period of the data frame is the first day of the month its text
\* names, so two records of one calendar month have one period, and the
\* aggregation by period alone has one bucket per calendar month.
C14_MonthGranularity ==
    /\ PeriodParsed =>
        LET period == ColOf(df, "ANO/MÊS").cells
        IN /\ \A i \in 1..Len(rowid) :
                period[i] = Ts(RawMonth(RawPeriod(rowid[i]))[1], RawMonth(RawPeriod(rowid[i]))[2], 1)
           /\ \A i, j \in 1..Len(rowid) :
                RawMonth(RawPeriod(rowid[i])) = RawMonth(RawPeriod(rowid[j]))
                    => period[i] = period[j]
    /\ (pc = "aggregated" /\ group_by_col = "Nenhum") =>
        NRows(agrupado_agg) = Cardinality(MonthsOf(df_filtrado))

\* ------------------------------------------------- the order of the buckets
\* the day number of a timestamp, for comparing two of them
DayNumber(c) == (c.y * 12 + (c.m - 1)) * 31 + (c.d - 1)

\* bucket i of d comes before bucket j: an earlier period, or the same period
\* and a smaller value of the grouping column
BucketBefore(d, keys, i, j) ==
    LET period == ColOf(d, "ANO/MÊS").cells
    IN \/ DayNumber(period[i]) < DayNumber(period[j])
       \/ /\ period[i] = period[j]
          /\ Len(keys) = 2
          /\ TextLess(ColOf(d, keys[2]).cells[i].s, ColOf(d, keys[2]).cells[j].s)

\* C15: the rows of the aggregate are in ascending order of their key, the
\* period first and the value of the grouping column within one period, after
\* the first grouped sum and after every left merge of a further metric; the
\* keys are those of the records aggregated, so no merge adds, drops or moves
\* a bucket.
C15_BucketsSorted ==
    pc \in {"merging", "aggregated", "rendered"} =>
        LET ready == df_groupby_ready(df_filtrado, group_by_col)
            keys == group_cols(df_filtrado, group_by_col)
        IN /\ \A i, j \in 1..NRows(agrupado_agg) :
                i < j => BucketBefore(agrupado_agg, keys, i, j)
           /\ Range(BucketKeys(agrupado_agg, keys))
                = {KeyAt(ready, keys, i) : i \in 1..NRows(ready)}

C15_Witness ==
    /\ pc = "aggregated"
    /\ group_by_col = "Modal"
    /\ Len(rawRows) = 2
    /\ rawRows[1][1] = Str(T_202302)
    /\ rawRows[2][1] = Str(T_202301)
    /\ ColOf(agrupado_agg, "ANO/MÊS").cells = <<Ts(2023, 1, 1), Ts(2023, 2, 1)>>

\* -------------------------------------------------- no record lost
\* the values the grouping column g has in the records of d
PresentValues(d, g) == {c \in Range(ColOf(d, g).cells) : ~IsMissing(c)}

\* record r of d belongs to bucket b of agg: the period of the record, and
\* under a grouping its value of the grouping column, or for a record without
\* one a label that is the value of no record
RowInBucket(d, agg, keys, r, b) ==
    /\ ColOf(agg, "ANO/MÊS").cells[b] = ColOf(d, "ANO/MÊS").cells[r]
    /\ Len(keys) = 2 =>
        LET c == ColOf(d, keys[2]).cells[r]
            label == ColOf(agg, keys[2]).cells[b]
        IN IF IsMissing(c) THEN label \notin PresentValues(d, keys[2]) ELSE label = c

\* C16: for a filtered data frame with at least one record and any grouping,
\* every record, one without a value of the grouping column included, belongs
\* to exactly one bucket of the aggregate, and for every metric the sum over
\* the buckets is the sum over the records.
C16_NoRecordLost ==
    pc \in {"aggregated", "rendered"} =>
        LET keys == group_cols(df_filtrado, group_by_col)
            metrics == agg_dict(df_filtrado)
        IN /\ \A r \in 1..NRows(df_filtrado) :
                Cardinality({b \in 1..NRows(agrupado_agg) :
                                RowInBucket(df_filtrado, agrupado_agg, keys, r, b)}) = 1
           /\ \A m \in Range(metrics) :
                ColTotal(agrupado_agg, m) = ColTotal(df_filtrado, m)

C16_Witness ==
    /\ pc = "aggregated"
    /\ group_by_col = "Modal"
    /\ NRows(df_filtrado) = 2
    /\ ColOf(df_filtrado, "Modal").cells = <<NA, Str(T_A)>>
    /\ ColOf(df_filtrado, "ANO/MÊS").cells[1] = ColOf(df_filtrado, "ANO/MÊS").cells[2]
    /\ ColOf(agrupado_agg, "Peso").cells = <<Num(2000 * Scale), Num(1000 * Scale)>>

Next ==
    \/ ReadFile
    \/ MapColumns
    \/ ResolveConflict
    \/ Rename
    \/ Dedup
    \/ NormalizeDates
    \/ CheckPeso
    \/ Backfill
    \/ Coerce
    \/ ChooseMenu
    \/ Filter
    \/ SelectGroup
    \/ AggFirst
    \/ AggMerge
    \/ AggFinish
    \/ Render
    \/ ForecastSelect
    \/ ForecastFit

Spec == Init /\ [][Next]_vars

====
